---- MODULE Spec2Model ----
(***************************************************************************)
(* A model of fsock's utils.go: the text decoding helpers of the           *)
(* FreeSWITCH event socket (FSEventStrToMap, MapChanData, EventToMap,      *)
(* splitIgnoreGroups, headerVal, urlDecode, isSliceMember) and the         *)
(* Fibonacci backoff closure fibDuration.                                  *)
(*                                                                         *)
(* A Go string is modelled as the sequence of its bytes (naturals below    *)
(* 256); a Go map[string]string as a function whose domain is a set of     *)
(* such sequences.  Go indices are 0-based, TLA+ sequences 1-based: the    *)
(* operators that mirror library functions (Index, Slice) keep Go's        *)
(* 0-based convention at their interface.                                  *)
(***************************************************************************)
EXTENDS Integers, Sequences, FiniteSets, TLC

\* ------------------------------------------------------------------ bytes
NL      == 10
SPACE   == 32
PERCENT == 37
LPAR    == 40
RPAR    == 41
PLUS    == 43
COMMA   == 44
COLON   == 58
LSQ     == 91
RSQ     == 93
LCRL    == 123
RCRL    == 125

\* ": ", the header/value token of the event socket protocol
ColonSpace == <<COLON, SPACE>>

\* const EventBodyTag = "EvBody"
EventBodyTag == <<69, 118, 66, 111, 100, 121>>

\* ----------------------------------------------------------------- bounds
\* longest raw value handed to urlDecode
MaxValLen == 4
\* longest string handed to splitIgnoreGroups
MaxSplitLen == 4
\* most lines of a channel listing
MaxChanLines == 6
\* most lines of an event frame
MaxEventLines == 4
\* most lines of a header block searched by headerVal
MaxHdrLines == 3
\* most names in the excluded-headers slice handed to FSEventStrToMap
MaxHeaders == 3
\* most lines of a text handed to FSEventStrToMap
MaxFSLines == 2
\* most calls of one fibDuration closure
MaxCalls == 14
\* Go's int and time.Duration are 64 bits wide; the model keeps their
\* two's complement wrap-around at a width whose products TLC's own
\* integers can hold
IntBits == 8

\* all byte strings over alphabet A of length at most n
SeqsUpTo(A, n) == UNION {[1..k -> A] : k \in 0..n}

\* ------------------------------------------------- Go library: strings, url
\* s[lo:hi]
Slice(s, lo, hi) == SubSeq(s, lo + 1, hi)

\* strings.HasPrefix(s[p:], sub), p 0-based
MatchAt(s, sub, p) ==
    /\ p + Len(sub) <= Len(s)
    /\ \A k \in 1..Len(sub) : s[p + k] = sub[k]

\* strings.Index(s, sub): the 0-based index of the first occurrence, or -1
Index(s, sub) ==
    LET hits == {p \in 0..Len(s) : MatchAt(s, sub, p)}
    IN  IF hits = {} THEN -1
        ELSE CHOOSE p \in hits : \A q \in hits : p <= q

\* strings.SplitN(s, sep, n) for n > 0 and a non-empty sep
RECURSIVE SplitN(_, _, _)
SplitN(s, sep, n) ==
    LET i == Index(s, sep)
    IN  IF n = 1 \/ i = -1 THEN <<s>>
        ELSE <<Slice(s, 0, i)>> \o SplitN(Slice(s, i + Len(sep), Len(s)), sep, n - 1)

\* strings.Split(s, sep) for a non-empty sep: as many pieces as there are
\* occurrences, plus one
RECURSIVE Split(_, _)
Split(s, sep) ==
    LET i == Index(s, sep)
    IN  IF i = -1 THEN <<s>>
        ELSE <<Slice(s, 0, i)>> \o Split(Slice(s, i + Len(sep), Len(s)), sep)

\* strings.Join(elems, sep)
RECURSIVE Join(_, _)
Join(elems, sep) ==
    IF elems = <<>> THEN <<>>
    ELSE IF Len(elems) = 1 THEN elems[1]
    ELSE elems[1] \o sep \o Join(Tail(elems), sep)

\* the ASCII bytes unicode.IsSpace accepts: \t \n \v \f \r and space
AsciiSpace == {9, 10, 11, 12, 13, SPACE}

\* strings.TrimRight(s, cutset)
RECURSIVE TrimRight(_, _)
TrimRight(s, cutset) ==
    IF s # <<>> /\ s[Len(s)] \in cutset
    THEN TrimRight(SubSeq(s, 1, Len(s) - 1), cutset)
    ELSE s

\* strings.TrimLeft(s, cutset)
RECURSIVE TrimLeft(_, _)
TrimLeft(s, cutset) ==
    IF s # <<>> /\ s[1] \in cutset THEN TrimLeft(Tail(s), cutset) ELSE s

\* strings.TrimSpace(s)
TrimSpace(s) == TrimLeft(TrimRight(s, AsciiSpace), AsciiSpace)

\* net/url ishex
ishex(c) == c \in 48..57 \/ c \in 97..102 \/ c \in 65..70

\* net/url unhex
unhex(c) ==
    IF c \in 48..57 THEN c - 48
    ELSE IF c \in 97..102 THEN c - 97 + 10
    ELSE IF c \in 65..70 THEN c - 65 + 10
    ELSE 0

\* net/url unescape, first pass: every '%' is followed by two hex digits
RECURSIVE EscapesWellFormed(_, _)
EscapesWellFormed(s, i) ==
    IF i >= Len(s) THEN TRUE
    ELSE IF s[i + 1] = PERCENT
         THEN /\ i + 2 < Len(s)
              /\ ishex(s[i + 2])
              /\ ishex(s[i + 3])
              /\ EscapesWellFormed(s, i + 3)
         ELSE EscapesWellFormed(s, i + 1)

\* net/url unescape, second pass; plusAsSpace is mode == encodeQueryComponent
RECURSIVE UnescapeBytes(_, _, _)
UnescapeBytes(s, i, plusAsSpace) ==
    IF i >= Len(s) THEN <<>>
    ELSE IF s[i + 1] = PERCENT
         THEN <<unhex(s[i + 2]) * 16 + unhex(s[i + 3])>>
                  \o UnescapeBytes(s, i + 3, plusAsSpace)
    ELSE IF s[i + 1] = PLUS /\ plusAsSpace
         THEN <<SPACE>> \o UnescapeBytes(s, i + 1, plusAsSpace)
    ELSE <<s[i + 1]>> \o UnescapeBytes(s, i + 1, plusAsSpace)

\* url.QueryUnescape(s): [err |-> an escape is malformed, val |-> the result]
QueryUnescape(s) ==
    IF EscapesWellFormed(s, 0)
    THEN [err |-> FALSE, val |-> UnescapeBytes(s, 0, TRUE)]
    ELSE [err |-> TRUE, val |-> <<>>]

\* url.PathUnescape(s): as QueryUnescape, but '+' stays '+'
PathUnescape(s) ==
    IF EscapesWellFormed(s, 0)
    THEN [err |-> FALSE, val |-> UnescapeBytes(s, 0, FALSE)]
    ELSE [err |-> TRUE, val |-> <<>>]

\* ---------------------------------------------------------------- urlDecode
\* a urlDecode that unescapes in path mode
urlDecode_path(hdrVal) ==
    LET r == PathUnescape(hdrVal)
    IN  IF ~r.err THEN r.val ELSE hdrVal

\* func urlDecode(hdrVal string) string
urlDecode(hdrVal) ==
    LET r == QueryUnescape(hdrVal)
    IN  IF ~r.err THEN r.val ELSE hdrVal

\* ------------------------------------------------------------ Go maps
\* make(map[string]string)
EmptyMap == [k \in {} |-> <<>>]

\* m[key] = val
MapPut(m, key, val) ==
    [k \in DOMAIN m \cup {key} |-> IF k = key THEN val ELSE m[k]]

\* -------------------------------------------------------- splitIgnoreGroups
\* the loop `for i, ch := range s` of splitIgnoreGroups from byte i on (0-based),
\* followed by the trailing append of s[idx:]
RECURSIVE splitScan(_, _, _, _, _, _, _, _)
splitScan(s, sep, i, idx, sqBrackets, crlBrackets, parantheses, sl) ==
    IF i >= Len(s) THEN Append(sl, Slice(s, idx, Len(s)))
    ELSE LET ch == s[i + 1]
         IN  IF ch = sep[1] /\ sqBrackets = 0 /\ crlBrackets = 0 /\ parantheses = 0
             THEN splitScan(s, sep, i + 1, i + 1, sqBrackets, crlBrackets,
                            parantheses, Append(sl, Slice(s, idx, i)))
             ELSE IF ch = LSQ
             THEN splitScan(s, sep, i + 1, idx, sqBrackets + 1, crlBrackets,
                            parantheses, sl)
             ELSE IF ch = RSQ /\ sqBrackets > 0
             THEN splitScan(s, sep, i + 1, idx, sqBrackets - 1, crlBrackets,
                            parantheses, sl)
             ELSE IF ch = LCRL
             THEN splitScan(s, sep, i + 1, idx, sqBrackets, crlBrackets + 1,
                            parantheses, sl)
             ELSE IF ch = RCRL /\ crlBrackets > 0
             THEN splitScan(s, sep, i + 1, idx, sqBrackets, crlBrackets - 1,
                            parantheses, sl)
             ELSE IF ch = LPAR
             THEN splitScan(s, sep, i + 1, idx, sqBrackets, crlBrackets,
                            parantheses + 1, sl)
             ELSE IF ch = RPAR /\ parantheses > 0
             THEN splitScan(s, sep, i + 1, idx, sqBrackets, crlBrackets,
                            parantheses - 1, sl)
             ELSE splitScan(s, sep, i + 1, idx, sqBrackets, crlBrackets,
                            parantheses, sl)

\* a splitIgnoreGroups that splits at every separator, grouped or not
splitIgnoreGroups_plain(s, sep) ==
    IF s = <<>> THEN <<>>
    ELSE IF sep = <<>> THEN <<s>>
    ELSE Split(s, <<sep[1]>>)

\* func splitIgnoreGroups(s string, sep string) (sl []string)
splitIgnoreGroups(s, sep) ==
    IF s = <<>> THEN <<>>
    ELSE IF sep = <<>> THEN <<s>>
    ELSE splitScan(s, sep, 0, 0, 0, 0, 0, <<>>)

\* -------------------------------------------------------------- MapChanData
\* the loop `for iHdr, hdr := range hdrs { chnMp[hdr] = chanInfo[iHdr] }`
RECURSIVE chanRow(_, _, _, _)
chanRow(hdrs, chanInfo, iHdr, chnMp) ==
    IF iHdr >= Len(hdrs) THEN chnMp
    ELSE chanRow(hdrs, chanInfo, iHdr + 1,
                 MapPut(chnMp, hdrs[iHdr + 1], chanInfo[iHdr + 1]))

\* the loop over the data lines of MapChanData
RECURSIVE chanRows(_, _, _)
chanRows(hdrs, dataLns, chansInfoMap) ==
    IF dataLns = <<>> THEN chansInfoMap
    ELSE LET chanInfo == splitIgnoreGroups(dataLns[1], <<COMMA>>)
         IN  IF Len(hdrs) # Len(chanInfo)
             THEN chanRows(hdrs, Tail(dataLns), chansInfoMap)
             ELSE chanRows(hdrs, Tail(dataLns),
                           Append(chansInfoMap, chanRow(hdrs, chanInfo, 0, EmptyMap)))

\* a MapChanData that takes the footer to be two lines long
MapChanData_shortFooter(chanInfoStr) ==
    LET spltChanInfo == Split(chanInfoStr, <<NL>>)
    IN  IF Len(spltChanInfo) <= 3 THEN <<>>
        ELSE chanRows(Split(spltChanInfo[1], <<COMMA>>),
                      Slice(spltChanInfo, 1, Len(spltChanInfo) - 2), <<>>)

\* a MapChanData that splits the data lines with strings.Split
MapChanData_plainRows(chanInfoStr) ==
    LET spltChanInfo == Split(chanInfoStr, <<NL>>)
        hdrs == Split(spltChanInfo[1], <<COMMA>>)
        dataLns == Slice(spltChanInfo, 1, Len(spltChanInfo) - 3)
        fit == SelectSeq(dataLns, LAMBDA ln : ln # <<>> /\ Len(Split(ln, <<COMMA>>)) = Len(hdrs))
    IN  IF Len(spltChanInfo) <= 4 THEN <<>>
        ELSE [k \in 1..Len(fit) |-> chanRow(hdrs, Split(fit[k], <<COMMA>>), 0, EmptyMap)]

\* func MapChanData(chanInfoStr string) (chansInfoMap []map[string]string)
MapChanData(chanInfoStr) ==
    LET spltChanInfo == Split(chanInfoStr, <<NL>>)
    IN  IF Len(spltChanInfo) <= 4 THEN <<>>
        ELSE chanRows(Split(spltChanInfo[1], <<COMMA>>),
                      Slice(spltChanInfo, 1, Len(spltChanInfo) - 3), <<>>)

\* --------------------------------------------------------------- EventToMap
\* the loop `for i := 0; i < len(spltevent); i++` of EventToMap from line i on
RECURSIVE eventLoop(_, _, _, _)
eventLoop(spltevent, i, body, result) ==
    IF i >= Len(spltevent) THEN result
    ELSE IF Len(spltevent[i + 1]) = 0 THEN eventLoop(spltevent, i + 1, TRUE, result)
    ELSE IF body
         THEN MapPut(result, EventBodyTag,
                     Join(Slice(spltevent, i, Len(spltevent)), <<NL>>))
    ELSE LET val == SplitN(spltevent[i + 1], ColonSpace, 2)
         IN  eventLoop(spltevent, i + 1, body,
                       IF Len(val) = 2
                       THEN MapPut(result, val[1], urlDecode(TrimSpace(val[2])))
                       ELSE result)

\* the loop of an EventToMap that stores the body and goes on to the next line
RECURSIVE eventLoop_noReturn(_, _, _, _)
eventLoop_noReturn(spltevent, i, body, result) ==
    IF i >= Len(spltevent) THEN result
    ELSE IF Len(spltevent[i + 1]) = 0
         THEN eventLoop_noReturn(spltevent, i + 1, TRUE, result)
    ELSE LET val == SplitN(spltevent[i + 1], ColonSpace, 2)
             withBody == IF body /\ EventBodyTag \notin DOMAIN result
                         THEN MapPut(result, EventBodyTag,
                                     Join(Slice(spltevent, i, Len(spltevent)), <<NL>>))
                         ELSE result
         IN  eventLoop_noReturn(spltevent, i + 1, body,
                                IF Len(val) = 2
                                THEN MapPut(withBody, val[1], urlDecode(TrimSpace(val[2])))
                                ELSE withBody)

\* an EventToMap that keeps reading header lines after the body starts
EventToMap_noReturn(event) ==
    eventLoop_noReturn(Split(event, <<NL>>), 0, FALSE, EmptyMap)

\* func EventToMap(event string) (result map[string]string)
EventToMap(event) == eventLoop(Split(event, <<NL>>), 0, FALSE, EmptyMap)

\* ---------------------------------------------------------------- headerVal
\* a headerVal that percent-decodes the value it returns
headerVal_decoded(hdrs, hdr) ==
    LET hdrSIdx == Index(hdrs, hdr)
        nl      == Index(Slice(hdrs, hdrSIdx, Len(hdrs)), <<NL>>)
        hdrEIdx == IF nl = -1 THEN Len(hdrs) - hdrSIdx ELSE nl
        splt    == SplitN(Slice(hdrs, hdrSIdx, hdrSIdx + hdrEIdx), ColonSpace, 2)
    IN  IF hdrSIdx = -1 THEN <<>>
        ELSE IF Len(splt) # 2 THEN <<>>
        ELSE urlDecode(TrimSpace(TrimRight(splt[2], {NL})))

\* func headerVal(hdrs, hdr string) string
headerVal(hdrs, hdr) ==
    LET hdrSIdx == Index(hdrs, hdr)
        nl      == Index(Slice(hdrs, hdrSIdx, Len(hdrs)), <<NL>>)
        hdrEIdx == IF nl = -1 THEN Len(hdrs) - hdrSIdx ELSE nl
        splt    == SplitN(Slice(hdrs, hdrSIdx, hdrSIdx + hdrEIdx), ColonSpace, 2)
    IN  IF hdrSIdx = -1 THEN <<>>
        ELSE IF Len(splt) # 2 THEN <<>>
        ELSE TrimSpace(TrimRight(splt[2], {NL}))

\* ------------------------------------------------------------ isSliceMember
\* x < y on Go strings: bytewise lexicographic order
RECURSIVE StrLess(_, _)
StrLess(x, y) ==
    IF y = <<>> THEN FALSE
    ELSE IF x = <<>> THEN TRUE
    ELSE IF x[1] # y[1] THEN x[1] < y[1]
    ELSE StrLess(Tail(x), Tail(y))

\* data[i], data[j] = data[j], data[i] (0-based)
Swap(data, i, j) == [data EXCEPT ![i + 1] = data[j + 1], ![j + 1] = data[i + 1]]

\* sort.Strings on a short slice is an insertion sort; its inner loop
\* `for j := i; j > 0 && data[j] < data[j-1]; j-- { swap }`
RECURSIVE sinkDown(_, _)
sinkDown(data, j) ==
    IF j > 0 /\ StrLess(data[j + 1], data[j])
    THEN sinkDown(Swap(data, j, j - 1), j - 1)
    ELSE data

\* its outer loop `for i := 1; i < n; i++`
RECURSIVE insertionSort(_, _)
insertionSort(data, i) ==
    IF i >= Len(data) THEN data ELSE insertionSort(sinkDown(data, i), i + 1)

\* sort.SearchStrings(a, x): the loop `for i < j` of the binary search
RECURSIVE SearchStrings(_, _, _, _)
SearchStrings(a, x, i, j) ==
    IF i < j
    THEN LET h == (i + j) \div 2
         IN  IF StrLess(a[h + 1], x) THEN SearchStrings(a, x, h + 1, j)
             ELSE SearchStrings(a, x, i, h)
    ELSE i

\* func isSliceMember(ss []string, s string) bool: ss is sorted in place, so the
\* slice the caller passed comes back as field ss
isSliceMember(ss, s) ==
    LET sorted == insertionSort(ss, 1)
        i      == SearchStrings(sorted, s, 0, Len(sorted))
    IN  [ss |-> sorted, member |-> i < Len(sorted) /\ sorted[i + 1] = s]

\* ---------------------------------------------------------- FSEventStrToMap
\* the loop over the lines of FSEventStrToMap; headers is the caller's slice
RECURSIVE fsEventLoop(_, _, _, _)
fsEventLoop(lns, headers, filtered, fsevent) ==
    IF lns = <<>> THEN [fsevent |-> fsevent, headers |-> headers]
    ELSE LET hdrVal == SplitN(lns[1], ColonSpace, 2)
             val    == urlDecode(TrimSpace(TrimRight(hdrVal[2], {NL})))
             m      == isSliceMember(headers, hdrVal[1])
         IN  IF Len(hdrVal) # 2
             THEN fsEventLoop(Tail(lns), headers, filtered, fsevent)
             ELSE IF ~filtered
             THEN fsEventLoop(Tail(lns), headers, filtered,
                              MapPut(fsevent, hdrVal[1], val))
             ELSE IF m.member
             THEN fsEventLoop(Tail(lns), m.ss, filtered, fsevent)
             ELSE fsEventLoop(Tail(lns), m.ss, filtered,
                              MapPut(fsevent, hdrVal[1], val))

\* func FSEventStrToMap(fsevstr string, headers []string) map[string]string:
\* the map returned, and the caller's slice as the call leaves it
FSEventStrToMap(fsevstr, headers) ==
    fsEventLoop(Split(fsevstr, <<NL>>), headers, Len(headers) # 0, EmptyMap)

\* -------------------------------------------------------------- fibDuration
\* x as a two's complement integer of IntBits bits
Wrap(x) == ((x + 2 ^ (IntBits - 1)) % (2 ^ IntBits)) - 2 ^ (IntBits - 1)

\* -------------------------------------------------------------------- state
VARIABLES
    pc,             \* where the single caller of the sequential specifications is
    rawVal,         \* urlDecode: the argument
    decVal,         \* urlDecode: the value returned for rawVal
    decAgain,       \* urlDecode: the value returned for decVal
    s, sep,         \* splitIgnoreGroups: the arguments
    sl,             \* splitIgnoreGroups: the slice returned
    chanInfoStr,    \* MapChanData: the argument
    chansInfoMap,   \* MapChanData: the slice of row maps returned
    event,          \* EventToMap: the argument
    result,         \* EventToMap: the map returned
    hdrs, hdr,      \* headerVal: the arguments
    hval,           \* headerVal: the string returned
    fsevstr,        \* FSEventStrToMap: the text of the last call
    headers,        \* FSEventStrToMap: the caller's excluded-headers slice
    fsevent,        \* FSEventStrToMap: the map returned by the last call
    a, b,           \* fibDuration: the closure's Fibonacci state
    durationUnit,   \* fibDuration: the closure's unit
    maxDuration,    \* fibDuration: the closure's cap (0: none)
    ret, prevRet,   \* fibDuration: what the last call and the one before returned
    calls,          \* fibDuration: calls of the closure so far
    proc,           \* concurrent FSEventStrToMap: each goroutine's locals
    headers0        \* concurrent FSEventStrToMap: the slice as first passed

decodeVars == <<rawVal, decVal, decAgain>>
splitVars  == <<s, sep, sl>>
chanVars   == <<chanInfoStr, chansInfoMap>>
eventVars  == <<event, result>>
hdrVars    == <<hdrs, hdr, hval>>
fsVars     == <<fsevstr, headers, fsevent>>
fibVars    == <<a, b, durationUnit, maxDuration, ret, prevRet, calls>>
concVars   == <<proc, headers0>>

vars == <<pc, decodeVars, splitVars, chanVars, eventVars, hdrVars, fsVars, fibVars,
          concVars>>

\* the parts of the state a specification does not use
DecodeIdle == rawVal = <<>> /\ decVal = <<>> /\ decAgain = <<>>
SplitIdle  == s = <<>> /\ sep = <<>> /\ sl = <<>>
ChanIdle   == chanInfoStr = <<>> /\ chansInfoMap = <<>>
EventIdle  == event = <<>> /\ result = EmptyMap
HdrIdle    == hdrs = <<>> /\ hdr = <<>> /\ hval = <<>>
FSIdle     == fsevstr = <<>> /\ headers = <<>> /\ fsevent = EmptyMap
FibIdle    ==
    /\ a = 0 /\ b = 1 /\ durationUnit = 1 /\ maxDuration = 0
    /\ ret = 0 /\ prevRet = 0 /\ calls = 0
ConcIdle   == proc = <<>> /\ headers0 = <<>>

Contains(str, c) == \E k \in 1..Len(str) : str[k] = c

\* the k-th smallest element of a finite set of integers
Nth(P, k) == CHOOSE x \in P : Cardinality({y \in P : y <= x}) = k

\* ============================================================== urlDecode
\* '%', '+', the hex digits '2' and 'B', the non-hex letter 'g'
DecodeAlphabet == {PERCENT, PLUS, 50, 66, 103}

InitDecode ==
    /\ pc = "ready"
    /\ rawVal \in SeqsUpTo(DecodeAlphabet, MaxValLen)
    /\ decVal = <<>>
    /\ decAgain = <<>>
    /\ SplitIdle /\ ChanIdle /\ EventIdle /\ HdrIdle /\ FSIdle /\ FibIdle /\ ConcIdle

\* decVal := urlDecode(rawVal)
CallUrlDecode ==
    /\ pc = "ready"
    /\ decVal' = urlDecode(rawVal)
    /\ pc' = "decoded"
    /\ UNCHANGED <<rawVal, decAgain, splitVars, chanVars, eventVars, hdrVars,
                   fsVars, fibVars, concVars>>

\* decAgain := urlDecode(decVal)
CallUrlDecodeAgain ==
    /\ pc = "decoded"
    /\ decAgain' = urlDecode(decVal)
    /\ pc' = "done"
    /\ UNCHANGED <<rawVal, decVal, splitVars, chanVars, eventVars, hdrVars,
                   fsVars, fibVars, concVars>>

NextDecode == CallUrlDecode \/ CallUrlDecodeAgain

SpecDecode == InitDecode /\ [][NextDecode]_vars

\* every '+' of str replaced by a space
PlusToSpace(str) ==
    [k \in 1..Len(str) |-> IF str[k] = PLUS THEN SPACE ELSE str[k]]

\* C7 as stated: urlDecode leaves every string without '%' unchanged, and
\* decoding it a second time changes nothing either.
C7_PlainUnchanged ==
    ~Contains(rawVal, PERCENT) =>
        /\ pc \in {"decoded", "done"} => decVal = rawVal
        /\ pc = "done" => decAgain = decVal

\* C7 amended: urlDecode leaves every string with neither '%' nor '+'
\* unchanged; a string without '%' comes back with each '+' turned into a
\* space, and that result is a fixed point of urlDecode.
C7_PlainDecode ==
    ~Contains(rawVal, PERCENT) =>
        /\ pc \in {"decoded", "done"} =>
              /\ decVal = PlusToSpace(rawVal)
              /\ ~Contains(rawVal, PLUS) => decVal = rawVal
        /\ pc = "done" => decAgain = decVal

\* a '%'-free value holding a '+' and another byte has been decoded twice
C7_Witness ==
    /\ pc = "done"
    /\ ~Contains(rawVal, PERCENT)
    /\ Contains(rawVal, PLUS)
    /\ Contains(rawVal, 103)
    /\ decAgain = decVal
    /\ decVal # rawVal

\* ====================================================== splitIgnoreGroups
\* 'a', ',' and the six grouping bytes
SplitAlphabet == {97, COMMA, LSQ, RSQ, LCRL, RCRL, LPAR, RPAR}

\* no separator, ",", and a separator that is itself a grouping byte
Seps == {<<>>, <<COMMA>>, <<LSQ>>}

InitSplit ==
    /\ pc = "ready"
    /\ s \in SeqsUpTo(SplitAlphabet, MaxSplitLen)
    /\ sep \in Seps
    /\ sl = <<>>
    /\ DecodeIdle /\ ChanIdle /\ EventIdle /\ HdrIdle /\ FSIdle /\ FibIdle /\ ConcIdle

\* sl := splitIgnoreGroups(s, sep)
CallSplitIgnoreGroups ==
    /\ pc = "ready"
    /\ sl' = splitIgnoreGroups(s, sep)
    /\ pc' = "done"
    /\ UNCHANGED <<s, sep, decodeVars, chanVars, eventVars, hdrVars, fsVars, fibVars, concVars>>

NextSplit == CallSplitIgnoreGroups

SpecSplit == InitSplit /\ [][NextSplit]_vars

\* the pieces of str between the positions (1-based) of P, in order
Segments(str, P) ==
    [k \in 1..(Cardinality(P) + 1) |->
        LET lo == IF k = 1 THEN 0 ELSE Nth(P, k - 1)
            hi == IF k = Cardinality(P) + 1 THEN Len(str) + 1 ELSE Nth(P, k)
        IN  SubSeq(str, lo + 1, hi - 1)]

\* the counter of the group open..close after the first i bytes of str, when
\* every opener counts up and every closer counts down from above zero
RECURSIVE Depth(_, _, _, _)
Depth(str, open, close, i) ==
    IF i = 0 THEN 0
    ELSE LET d == Depth(str, open, close, i - 1)
         IN  IF str[i] = open THEN d + 1
             ELSE IF str[i] = close /\ d > 0 THEN d - 1
             ELSE d

\* the separators of str at which all three such counters are zero
OpenSeps(str, c) ==
    {i \in 1..Len(str) :
        /\ str[i] = c
        /\ Depth(str, LSQ, RSQ, i - 1) = 0
        /\ Depth(str, LCRL, RCRL, i - 1) = 0
        /\ Depth(str, LPAR, RPAR, i - 1) = 0}

\* the same counter when a byte taken as a split point is not counted
RECURSIVE DepthCut(_, _, _, _, _)
RECURSIVE IsCut(_, _, _)
DepthCut(str, c, open, close, i) ==
    IF i = 0 THEN 0
    ELSE LET d == DepthCut(str, c, open, close, i - 1)
         IN  IF str[i] = c /\ IsCut(str, c, i) THEN d
             ELSE IF str[i] = open THEN d + 1
             ELSE IF str[i] = close /\ d > 0 THEN d - 1
             ELSE d

IsCut(str, c, i) ==
    /\ str[i] = c
    /\ DepthCut(str, c, LSQ, RSQ, i - 1) = 0
    /\ DepthCut(str, c, LCRL, RCRL, i - 1) = 0
    /\ DepthCut(str, c, LPAR, RPAR, i - 1) = 0

SplitPoints(str, c) == {i \in 1..Len(str) : IsCut(str, c, i)}

ChanLines == {<<>>, <<97, COMMA, 98>>, <<97, COMMA, 97>>,
              <<LPAR, 97, COMMA, 98, RPAR, COMMA, 97>>}

ChanBlocks == {Join(ls, <<NL>>) : ls \in SeqsUpTo(ChanLines, MaxChanLines)}

InitChan ==
    /\ pc = "ready"
    /\ chanInfoStr \in ChanBlocks
    /\ chansInfoMap = <<>>
    /\ DecodeIdle /\ SplitIdle /\ EventIdle /\ HdrIdle /\ FSIdle /\ FibIdle /\ ConcIdle

\* chansInfoMap := MapChanData(chanInfoStr)
CallMapChanData ==
    /\ pc = "ready"
    /\ chansInfoMap' = MapChanData(chanInfoStr)
    /\ pc' = "done"
    /\ UNCHANGED <<chanInfoStr, decodeVars, splitVars, eventVars, hdrVars, fsVars,
                   fibVars, concVars>>

NextChan == CallMapChanData

SpecChan == InitChan /\ [][NextChan]_vars

ChanLns == Split(chanInfoStr, <<NL>>)
ChanHdrs == Split(ChanLns[1], <<COMMA>>)
ChanFields(k) == splitIgnoreGroups(ChanLns[k], <<COMMA>>)

\* the lines (1-based) after the first and before the last three whose
\* group-aware split has as many fields as the header line has names
ChanDataLns ==
    {k \in 2..(Len(ChanLns) - 3) : Len(ChanFields(k)) = Len(ChanHdrs)}

\* C1 as stated: a block of five or fewer lines yields no row.
C1_FiveLinesEmpty ==
    (pc = "done" /\ Len(ChanLns) <= 5) => chansInfoMap = <<>>

\* C1 amended: a block of four or fewer lines yields no row, whatever the
\* lines hold (a block of five lines has one data line, which yields a row
\* when its field count matches).
C1_FourLinesEmpty ==
    (pc = "done" /\ Len(ChanLns) <= 4) => chansInfoMap = <<>>

\* a block of four lines whose second line matches the header line
C1_Witness ==
    /\ pc = "done"
    /\ Len(ChanLns) = 4
    /\ ChanLns[1] = <<97, COMMA, 98>>
    /\ ChanLns[2] = <<97, COMMA, 98>>
    /\ chansInfoMap = <<>>

\* C9 as stated: for a block of more than five lines, one row per matching
\* data line, in order, the row mapping the i-th header name to the i-th
\* field for every i.
C9_IthNameIthField ==
    (pc = "done" /\ Len(ChanLns) > 5) =>
        /\ Len(chansInfoMap) = Cardinality(ChanDataLns)
        /\ \A j \in 1..Len(chansInfoMap) :
              /\ DOMAIN chansInfoMap[j] = {ChanHdrs[i] : i \in 1..Len(ChanHdrs)}
              /\ \A i \in 1..Len(ChanHdrs) :
                    chansInfoMap[j][ChanHdrs[i]] = ChanFields(Nth(ChanDataLns, j))[i]

\* C9 amended: for a block of more than five lines, one row per matching
\* data line, in order, the row mapping each header name to the field at the
\* position of the name's last occurrence in the header line; lines with
\* another field count and the last three lines give no row.
C9_RowPerMatchingLine ==
    (pc = "done" /\ Len(ChanLns) > 5) =>
        /\ Len(chansInfoMap) = Cardinality(ChanDataLns)
        /\ \A j \in 1..Len(chansInfoMap) :
              /\ DOMAIN chansInfoMap[j] = {ChanHdrs[i] : i \in 1..Len(ChanHdrs)}
              /\ \A i \in 1..Len(ChanHdrs) :
                    (\A i2 \in (i + 1)..Len(ChanHdrs) : ChanHdrs[i2] # ChanHdrs[i]) =>
                        chansInfoMap[j][ChanHdrs[i]]
                            = ChanFields(Nth(ChanDataLns, j))[i]

\* six lines: a grouped data line that matches, one that does not, and a
\* footer line that would match
C9_Witness ==
    /\ pc = "done"
    /\ Len(ChanLns) = 6
    /\ ChanLns[1] = <<97, COMMA, 98>>
    /\ ChanLns[2] = <<>>
    /\ ChanLns[3] = <<LPAR, 97, COMMA, 98, RPAR, COMMA, 97>>
    /\ ChanLns[4] = <<97, COMMA, 98>>
    /\ Len(chansInfoMap) = 1
    /\ chansInfoMap[1][<<98>>] = <<97>>

\* ============================================================= EventToMap
\* "", "a: b", "b", "a: +%2B " and "EvBody: b"
EventLines == {<<>>,
               <<97, COLON, SPACE, 98>>,
               <<98>>,
               <<97, COLON, SPACE, PLUS, PERCENT, 50, 66, SPACE>>,
               EventBodyTag \o <<COLON, SPACE, 98>>}

EventFrames == {Join(ls, <<NL>>) : ls \in SeqsUpTo(EventLines, MaxEventLines)}

InitEvent ==
    /\ pc = "ready"
    /\ event \in EventFrames
    /\ result = EmptyMap
    /\ DecodeIdle /\ SplitIdle /\ ChanIdle /\ HdrIdle /\ FSIdle /\ FibIdle /\ ConcIdle

\* result := EventToMap(event)
CallEventToMap ==
    /\ pc = "ready"
    /\ result' = EventToMap(event)
    /\ pc' = "done"
    /\ UNCHANGED <<event, decodeVars, splitVars, chanVars, hdrVars, fsVars, fibVars, concVars>>

NextEvent == CallEventToMap

SpecEvent == InitEvent /\ [][NextEvent]_vars

EventLns == Split(event, <<NL>>)

\* the empty lines of the frame (1-based); the first of them is the boundary
EmptyLns == {k \in 1..Len(EventLns) : EventLns[k] = <<>>}
FirstEmpty == Nth(EmptyLns, 1)

\* the name and the decoded value of a header line
HdrName(ln) == Slice(ln, 0, Index(ln, ColonSpace))
HdrValue(ln) == urlDecode(TrimSpace(Slice(ln, Index(ln, ColonSpace) + 2, Len(ln))))

\* the headers of the first n lines: for each name, the value of the last
\* line that carries it
HeadersOf(n) ==
    LET hl == {k \in 1..n : Index(EventLns[k], ColonSpace) # -1}
    IN  [name \in {HdrName(EventLns[k]) : k \in hl} |->
            HdrValue(EventLns[
                CHOOSE k \in hl :
                    /\ HdrName(EventLns[k]) = name
                    /\ \A k2 \in hl : HdrName(EventLns[k2]) = name => k2 <= k])]

\* the lines before the boundary, or all lines when there is none
HeaderPart == IF EmptyLns = {} THEN Len(EventLns) ELSE FirstEmpty - 1

\* the non-empty lines after the boundary
BodyLns ==
    IF EmptyLns = {} THEN {}
    ELSE {k \in (FirstEmpty + 1)..Len(EventLns) : EventLns[k] # <<>>}

\* C2 as stated, for a frame that is not the empty string: everything after
\* the first empty line is the body, stored verbatim under EvBody; nothing
\* after it is read as a header; and EvBody is absent only when the frame has
\* no empty line.
C2_BodyAfterFirstEmpty ==
    (pc = "done" /\ event # <<>>) =>
        /\ EmptyLns # {} =>
              result = MapPut(HeadersOf(HeaderPart), EventBodyTag,
                              Join(SubSeq(EventLns, FirstEmpty + 1, Len(EventLns)),
                                   <<NL>>))
        /\ EventBodyTag \notin DOMAIN result => EmptyLns = {}

\* C2 amended: the body is the text from the first non-empty line after the
\* first empty line to the end of the frame, verbatim (the empty lines that
\* directly follow the boundary are dropped, later ones are kept); it is
\* stored under EvBody and nothing after the first empty line is read as a
\* header; when no non-empty line follows the first empty line, or there is
\* no empty line, the result holds the headers only.
C2_BodyFromFirstNonEmpty ==
    pc = "done" =>
        /\ BodyLns # {} =>
              result = MapPut(HeadersOf(HeaderPart), EventBodyTag,
                              Join(SubSeq(EventLns, Nth(BodyLns, 1), Len(EventLns)),
                                   <<NL>>))
        /\ BodyLns = {} => result = HeadersOf(HeaderPart)

\* a header, the boundary, then a body that holds a header-like line, an
\* empty line and more text
C2_Witness ==
    /\ pc = "done"
    /\ Len(EventLns) = 4
    /\ EventLns[1] = <<>>
    /\ EventLns[2] = <<97, COLON, SPACE, 98>>
    /\ EventLns[3] = <<>>
    /\ DOMAIN result = {EventBodyTag}
    /\ Len(result[EventBodyTag]) = 7

\* ============================================================== headerVal
\* "a: %2Bb", "ba:  a+ ", "b" and "a:"
HdrLines == {<<97, COLON, SPACE, PERCENT, 50, 66, 98>>,
             <<98, 97, COLON, SPACE, SPACE, 97, PLUS, SPACE>>,
             <<98>>,
             <<97, COLON>>}

HdrBlocks == {Join(ls, <<NL>>) : ls \in SeqsUpTo(HdrLines, MaxHdrLines)}

\* "a", "b", "ba", "c", ": " and ""
HdrNames == {<<97>>, <<98>>, <<98, 97>>, <<99>>, ColonSpace, <<>>}

InitHdr ==
    /\ pc = "ready"
    /\ hdrs \in HdrBlocks
    /\ hdr \in HdrNames
    /\ hval = <<>>
    /\ DecodeIdle /\ SplitIdle /\ ChanIdle /\ EventIdle /\ FSIdle /\ FibIdle /\ ConcIdle

\* hval := headerVal(hdrs, hdr)
CallHeaderVal ==
    /\ pc = "ready"
    /\ hval' = headerVal(hdrs, hdr)
    /\ pc' = "done"
    /\ UNCHANGED <<hdrs, hdr, decodeVars, splitVars, chanVars, eventVars, fsVars,
                   fibVars, concVars>>

NextHdr == CallHeaderVal

SpecHdr == InitHdr /\ [][NextHdr]_vars

\* the places (0-based) where hdr occurs in hdrs
Occurrences == {p \in 0..Len(hdrs) : MatchAt(hdrs, hdr, p)}

\* the line segment that starts at the first occurrence of hdr
Segment ==
    LET p   == Nth(Occurrences, 1)
        nls == {q \in (p + 1)..Len(hdrs) : hdrs[q] = NL}
    IN  SubSeq(hdrs, p + 1, IF nls = {} THEN Len(hdrs) ELSE Nth(nls, 1) - 1)

\* the text after the first ": " of the segment, whitespace-trimmed
SegmentValue ==
    TrimSpace(SubSeq(Segment, Index(Segment, ColonSpace) + 3, Len(Segment)))

HasValue == Occurrences # {} /\ Index(Segment, ColonSpace) # -1

\* C6 as stated: headerVal returns the trimmed and percent-decoded value of
\* the segment, and "" when the name does not occur or the segment has no
\* ": ".
C6_TrimmedDecoded ==
    pc = "done" => hval = IF HasValue THEN urlDecode(SegmentValue) ELSE <<>>

\* C6 amended: headerVal returns the trimmed value of the segment as it
\* stands, not percent-decoded, and "" when the name does not occur or the
\* segment has no ": ".
C6_TrimmedRaw ==
    pc = "done" => hval = IF HasValue THEN SegmentValue ELSE <<>>

\* the name is found inside a longer name, and its value holds an escape
\* sequence and surrounding blanks
C6_Witness ==
    /\ pc = "done"
    /\ hdr = <<97>>
    /\ Occurrences # {}
    /\ Nth(Occurrences, 1) = 1
    /\ hval = <<97, PLUS>>
    /\ urlDecode(hval) # hval

\* ======================================================== FSEventStrToMap
\* "a", "b" and "ab"
FSHeaderNames == {<<97>>, <<98>>, <<97, 98>>}

\* the slices a caller may pass, in any order
FSHeaderSlices == SeqsUpTo(FSHeaderNames, MaxHeaders)

\* "a: b", "b: %2B", "ab" and "c: a"
FSLines == {<<97, COLON, SPACE, 98>>,
            <<98, COLON, SPACE, PERCENT, 50, 66>>,
            <<97, 98>>,
            <<99, COLON, SPACE, 97>>}

FSTexts == {Join(ls, <<NL>>) : ls \in SeqsUpTo(FSLines, MaxFSLines)}

InitFS ==
    /\ pc = "ready"
    /\ fsevstr = <<>>
    /\ headers \in FSHeaderSlices
    /\ fsevent = EmptyMap
    /\ DecodeIdle /\ SplitIdle /\ ChanIdle /\ EventIdle /\ HdrIdle /\ FibIdle /\ ConcIdle

\* fsevent := FSEventStrToMap(text, headers), for any text, on the slice the
\* caller keeps from call to call
CallFSEventStrToMap ==
    /\ pc = "ready"
    /\ \E text \in FSTexts :
          LET r == FSEventStrToMap(text, headers)
          IN  /\ fsevstr' = text
              /\ fsevent' = r.fsevent
              /\ headers' = r.headers
    /\ UNCHANGED <<pc, decodeVars, splitVars, chanVars, eventVars, hdrVars, fibVars, concVars>>

NextFS == CallFSEventStrToMap

SpecFS == InitFS /\ [][NextFS]_vars

\* C4: a call of FSEventStrToMap leaves the caller's headers slice as it was,
\* same elements in the same order.
C4_HeadersUntouched == [][headers' = headers]_vars

\* ============================================================ fibDuration
FibUnits == {1, 2, 3}
FibCaps == {0, 5, 20, 100}

\* the state of a closure just built by fibDuration(durationUnit, maxDuration)
InitFib ==
    /\ pc = "ready"
    /\ a = 0
    /\ b = 1
    /\ durationUnit \in FibUnits
    /\ maxDuration \in FibCaps
    /\ ret = 0
    /\ prevRet = 0
    /\ calls = 0
    /\ DecodeIdle /\ SplitIdle /\ ChanIdle /\ EventIdle /\ HdrIdle /\ FSIdle /\ ConcIdle

\* one call of the closure: a, b = b, a+b; then a * durationUnit, capped
CallFibDuration ==
    /\ calls < MaxCalls
    /\ a' = b
    /\ b' = Wrap(a + b)
    /\ LET fibNrAsDuration == Wrap(b * durationUnit)
       IN  ret' = IF maxDuration > 0 /\ maxDuration < fibNrAsDuration
                  THEN maxDuration
                  ELSE fibNrAsDuration
    /\ prevRet' = ret
    /\ calls' = calls + 1
    /\ UNCHANGED <<pc, durationUnit, maxDuration, decodeVars, splitVars, chanVars,
                   eventVars, hdrVars, fsVars, concVars>>

NextFib == CallFibDuration

SpecFib == InitFib /\ [][NextFib]_vars

\* the n-th Fibonacci number, Fib(1) = Fib(2) = 1, over the integers
RECURSIVE Fib(_)
Fib(n) == IF n <= 2 THEN 1 ELSE Fib(n - 1) + Fib(n - 2)

\* C3: with a cap and a unit above zero, no call returns more than the cap,
\* no call returns less than the call before it, and after a call that
\* returned the cap every call returns the cap.
C3_CappedMonotone ==
    (maxDuration > 0 /\ durationUnit > 0 /\ calls >= 1) =>
        /\ ret <= maxDuration
        /\ calls >= 2 => ret >= prevRet
        /\ (calls >= 2 /\ prevRet = maxDuration) => ret = maxDuration

\* C8: without a cap the n-th call returns Fib(n) * durationUnit and leaves
\* the state at (Fib(n), Fib(n+1)).
C8_NthFibonacci ==
    (maxDuration = 0 /\ calls >= 1) =>
        /\ ret = Fib(calls) * durationUnit
        /\ a = Fib(calls)
        /\ b = Fib(calls + 1)

\* ============================================= concurrent FSEventStrToMap
\* Goroutines that call FSEventStrToMap at the same time, each on its own
\* text, all on the one slice `headers`.  A step is one read or one write of
\* an element of the slice, or a stretch of code that touches locals only.
Procs == {1, 2}

\* "b: a" and "a: b"
ConcTexts == {<<98, COLON, SPACE, 97>>, <<97, COLON, SPACE, 98>>}

StartOf(text) ==
    [at |-> "line", text |-> text, lns |-> Split(text, <<NL>>), key |-> <<>>,
     val |-> <<>>, i |-> 0, j |-> 0, x |-> <<>>, y |-> <<>>, lo |-> 0, hi |-> 0,
     fsevent |-> EmptyMap]

InitConc ==
    /\ pc = "ready"
    /\ fsevstr = <<>>
    /\ fsevent = EmptyMap
    /\ headers \in FSHeaderSlices
    /\ headers0 = headers
    /\ proc \in {[p \in Procs |-> StartOf(texts[p])] : texts \in [Procs -> ConcTexts]}
    /\ DecodeIdle /\ SplitIdle /\ ChanIdle /\ EventIdle /\ HdrIdle /\ FibIdle

ConcFrame ==
    UNCHANGED <<pc, fsevstr, fsevent, headers0, decodeVars, splitVars, chanVars,
                eventVars, hdrVars, fibVars>>

\* the head of the loop over the lines, up to the call of isSliceMember
LineStep(p) ==
    LET me     == proc[p]
        hdrVal == SplitN(me.lns[1], ColonSpace, 2)
        val    == urlDecode(TrimSpace(TrimRight(hdrVal[2], {NL})))
    IN  /\ me.at = "line"
        /\ proc' = [proc EXCEPT ![p] =
              IF me.lns = <<>> THEN [me EXCEPT !.at = "done"]
              ELSE IF Len(hdrVal) # 2 THEN [me EXCEPT !.lns = Tail(me.lns)]
              ELSE IF Len(headers) = 0
              THEN [me EXCEPT !.lns = Tail(me.lns),
                              !.fsevent = MapPut(me.fsevent, hdrVal[1], val)]
              ELSE [me EXCEPT !.at = "sortOuter", !.key = hdrVal[1], !.val = val,
                              !.i = 1]]
        /\ UNCHANGED headers
        /\ ConcFrame

\* sort.Strings: `for i := 1; i < n; i++ { for j := i; ...`
SortOuter(p) ==
    LET me == proc[p]
    IN  /\ me.at = "sortOuter"
        /\ proc' = [proc EXCEPT ![p] =
              IF me.i < Len(headers)
              THEN [me EXCEPT !.at = "sortTest", !.j = me.i]
              ELSE [me EXCEPT !.at = "search", !.lo = 0, !.hi = Len(headers)]]
        /\ UNCHANGED headers
        /\ ConcFrame

\* `j > 0 && data[j] < data[j-1]`: the read of data[j]
SortTest(p) ==
    LET me == proc[p]
    IN  /\ me.at = "sortTest"
        /\ proc' = [proc EXCEPT ![p] =
              IF me.j > 0
              THEN [me EXCEPT !.at = "sortTest2", !.x = headers[me.j + 1]]
              ELSE [me EXCEPT !.at = "sortOuter", !.i = me.i + 1]]
        /\ UNCHANGED headers
        /\ ConcFrame

\* the read of data[j-1], and the comparison
SortTest2(p) ==
    LET me == proc[p]
    IN  /\ me.at = "sortTest2"
        /\ proc' = [proc EXCEPT ![p] =
              IF StrLess(me.x, headers[me.j])
              THEN [me EXCEPT !.at = "swapRead", !.y = headers[me.j]]
              ELSE [me EXCEPT !.at = "sortOuter", !.y = headers[me.j],
                              !.i = me.i + 1]]
        /\ UNCHANGED headers
        /\ ConcFrame

\* `data[j], data[j-1] = data[j-1], data[j]`: the read of data[j-1]
SwapRead(p) ==
    LET me == proc[p]
    IN  /\ me.at = "swapRead"
        /\ proc' = [proc EXCEPT ![p] = [me EXCEPT !.at = "swapRead2",
                                                  !.x = headers[me.j]]]
        /\ UNCHANGED headers
        /\ ConcFrame

\* the read of data[j]
SwapRead2(p) ==
    LET me == proc[p]
    IN  /\ me.at = "swapRead2"
        /\ proc' = [proc EXCEPT ![p] = [me EXCEPT !.at = "swapWrite",
                                                  !.y = headers[me.j + 1]]]
        /\ UNCHANGED headers
        /\ ConcFrame

\* the write of data[j]
SwapWrite(p) ==
    LET me == proc[p]
    IN  /\ me.at = "swapWrite"
        /\ headers' = [headers EXCEPT ![me.j + 1] = me.x]
        /\ proc' = [proc EXCEPT ![p] = [me EXCEPT !.at = "swapWrite2"]]
        /\ ConcFrame

\* the write of data[j-1], and j--
SwapWrite2(p) ==
    LET me == proc[p]
    IN  /\ me.at = "swapWrite2"
        /\ headers' = [headers EXCEPT ![me.j] = me.y]
        /\ proc' = [proc EXCEPT ![p] = [me EXCEPT !.at = "sortTest",
                                                  !.j = me.j - 1]]
        /\ ConcFrame

\* sort.SearchStrings: one turn of `for i < j`, with its read of a[h]
SearchStep(p) ==
    LET me == proc[p]
        h  == (me.lo + me.hi) \div 2
    IN  /\ me.at = "search"
        /\ proc' = [proc EXCEPT ![p] =
              IF me.lo < me.hi
              THEN IF StrLess(headers[h + 1], me.key)
                   THEN [me EXCEPT !.lo = h + 1]
                   ELSE [me EXCEPT !.hi = h]
              ELSE [me EXCEPT !.at = "member"]]
        /\ UNCHANGED headers
        /\ ConcFrame

\* `i < len(ss) && ss[i] == s`, and the rest of the loop body
MemberStep(p) ==
    LET me     == proc[p]
        member == me.lo < Len(headers) /\ headers[me.lo + 1] = me.key
    IN  /\ me.at = "member"
        /\ proc' = [proc EXCEPT ![p] =
              IF member
              THEN [me EXCEPT !.at = "line", !.lns = Tail(me.lns)]
              ELSE [me EXCEPT !.at = "line", !.lns = Tail(me.lns),
                              !.fsevent = MapPut(me.fsevent, me.key, me.val)]]
        /\ UNCHANGED headers
        /\ ConcFrame

NextConc ==
    \E p \in Procs :
        \/ LineStep(p)
        \/ SortOuter(p)
        \/ SortTest(p)
        \/ SortTest2(p)
        \/ SwapRead(p)
        \/ SwapRead2(p)
        \/ SwapWrite(p)
        \/ SwapWrite2(p)
        \/ SearchStep(p)
        \/ MemberStep(p)

SpecConc == InitConc /\ [][NextConc]_vars

\* C5: each of the concurrent calls on one headers slice returns exactly the
\* map it returns when it runs alone on the slice as passed, under every
\* interleaving (what the claim promises a caller; the writes to the shared
\* slice that it rules out are the swaps of SwapWrite and SwapWrite2).
C5_SameAsAlone ==
    \A p \in Procs :
        proc[p].at = "done" =>
            proc[p].fsevent = FSEventStrToMap(proc[p].text, headers0).fsevent

====
